---- MODULE Spec2Model ----
(***************************************************************************)
(* Training / evaluation orchestration core of dialogue-kt (training.py). *)
(*                                                                         *)
(* One module, several specifications over the same variables.  Each       *)
(* specification drives one part of the core and keeps the variables of    *)
(* the other parts at their idle values:                                   *)
(*   Spec          train_lmkt / train_baseline epoch loop and checkpoints  *)
(*   SpecLmkt      test_lmkt: collection of predictions, final-turn lists  *)
(*   SpecBaseline  train / test dispatch and test_baseline                 *)
(*   SpecAgg       the three KC-probability aggregators                    *)
(*   SpecCV        train / test over folds: crossval and the metrics report*)
(*   SpecSweep     hyperparam_sweep                                        *)
(*   SpecAccum     the micro-batch loop of an epoch: gradient accumulation *)
(*   SpecShift     flat baselines: turn-end gather, loss and test metrics  *)
(***************************************************************************)
EXTENDS Integers, Sequences, FiniteSets, TLC

VARIABLES
    \* ---- train_lmkt / train_baseline (training.py 197-259, 431-493) ----
    family,         \* "lmkt" or "baseline": which of the two drivers runs
    epochs,         \* args.epochs
    epoch,          \* number of epochs completed so far
    val_losses,     \* avg_val_loss of every completed epoch, in order
    best_val_loss,  \* best_val_loss (None before the first save)
    checkpoint,     \* epoch whose weights are persisted at the checkpoint path (0: none)
    train_pc,       \* "loop" | "test"
    train_fold,     \* the fold argument of train_* (0: a falsy fold)
    disk,           \* the checkpoint directory: path -> what is stored there
    test_calls,     \* the calls of test_* made by train_*: arguments and what was loaded
    \* ---- test_lmkt (training.py 261-324) ----
    test_set,       \* the samples of test_dataset, in dataloader order (no shuffle)
    batch_size,     \* args.batch_size
    batch_idx,      \* number of test batches processed so far
    dialogue_idx_to_sample_idxs, \* the dict, as its items in insertion order
    \* ---- test_lmkt and test_baseline ----
    all_labels,
    all_preds,
    final_turn_labels,
    final_turn_preds,
    test_pc,        \* control position of the evaluation driver
    error,          \* the exception that ended the run ("" while none)
    \* ---- train / test dispatch and test_baseline (training.py 105-124, 495-555) ----
    entry,          \* "train" or "test": the entry point called
    model_type,     \* args.model_type
    model,          \* test_baseline's `model`: "unset" | "model" | "None"
    trained,        \* TRUE once train_baseline's epoch loop has run
    train_majority, \* majority class of the training split
    test_loader,    \* test_dataloader: the batches, each its batch["labels"]
    loader_pos,     \* batches of test_dataloader processed so far
    corr_probs,     \* corr_probs of the last batch processed
    loss_in,        \* the (probability, label) pairs given to BCELoss for that batch
    \* ---- get_lmkt_loss_unpacked / _packed, get_baseline_loss (153-195, 341-356) ----
    agg_kind,       \* "lmkt" or "baseline": which batch layout agg_batch holds
    agg_batch,      \* the batch and the model's KC probabilities for it
    agg_done,       \* the aggregators that have run on agg_batch
    out_unpacked,   \* what get_lmkt_loss_unpacked returned
    out_packed,     \* what get_lmkt_loss_packed returned
    out_baseline,   \* what get_baseline_loss returned
    \* ---- train / test / crossval / compute_all_metrics (82-148) ----
    cv_entry,       \* "train" or "test"
    crossval_on,    \* args.crossval
    split_by_subject, \* args.split_by_subject
    calls,          \* the calls fn(args, fold) made: fold and returned vector, in order
    eval_in,        \* the label vectors the latest call gave to compute_all_metrics
    reports,        \* folds whose metrics report file has been written
    metrics_agg,    \* crossval's metrics_agg
    summary,        \* the cross-validation summary file
    returned,       \* what train / test returned
    cv_pc,          \* "run" | "done" | "raised"
    \* ---- hyperparam_sweep (51-80) ----
    sw_args,        \* the args namespace: the fields the sweep reads and writes
    sw_plan,        \* what the trained models will score (input of the runs)
    model_names,    \* hyperparam_sweep's model_names
    sw_results,     \* hyperparam_sweep's results
    sw_runs,        \* the train runs made: name, hyperparameters, split, scores
    sw_report,      \* the sweep's result file
    sw_pc,          \* "entry" | "grid" | "done"
    \* ---- the epoch loop of train_lmkt / train_baseline (231-251, 465-485) ----
    grad_accum_steps, \* args.grad_accum_steps
    gc,             \* args.gc (truthy: clip the gradient norm before a step)
    num_batches,    \* len(train_dataloader)
    acc_epochs,     \* args.epochs
    acc_epoch,      \* epochs entered so far
    micro_idx,      \* micro-batches of this epoch already processed
    grad,           \* micro-batches whose gradient is accumulated in .grad
    opt_steps,      \* the optimizer steps taken: where, and which gradients
    grad_seen,      \* .grad as found at each epoch start and validation start
    acc_pc,         \* "epoch" | "batches" | "validate" | "done"
    \* ---- flat baselines on one batch (332-356, 387-423, 532-549) ----
    sh_model_type,  \* args.model_type, a flat-KC architecture
    sh_mode,        \* "train" (loss only) or "test" (loss and metrics lists)
    sh_batch,       \* the dialogues of the batch: per turn its KC count and label
    turn_end_idxs,  \* batch["turn_end_idxs"]
    y_sel,          \* what select_flat_baseline_out_vectors returned
    sh_loss,        \* what get_baseline_loss returned
    sh_eval,        \* what test_baseline took from the batch
    sh_pc           \* "select" | "loss" | "collect" | "done" | "error"

trainVars == <<family, epochs, epoch, val_losses, best_val_loss, checkpoint, train_pc,
               train_fold, disk, test_calls>>
lmktVars == <<test_set, batch_size, batch_idx, dialogue_idx_to_sample_idxs>>
evalVars == <<all_labels, all_preds, final_turn_labels, final_turn_preds, test_pc, error>>
baseVars == <<entry, model_type, model, trained, train_majority, test_loader, loader_pos,
              corr_probs, loss_in>>

aggVars == <<agg_kind, agg_batch, agg_done, out_unpacked, out_packed, out_baseline>>

cvVars == <<cv_entry, crossval_on, split_by_subject, calls, eval_in, reports, metrics_agg,
            summary, returned, cv_pc>>

sweepVars == <<sw_args, sw_plan, model_names, sw_results, sw_runs, sw_report, sw_pc>>

accVars == <<grad_accum_steps, gc, num_batches, acc_epochs, acc_epoch, micro_idx, grad,
             opt_steps, grad_seen, acc_pc>>

shiftVars == <<sh_model_type, sh_mode, sh_batch, turn_end_idxs, y_sel, sh_loss, sh_eval, sh_pc>>

vars == <<trainVars, lmktVars, evalVars, baseVars, aggVars, cvVars, sweepVars, accVars,
          shiftVars>>

\* What each part leaves alone.
notTrain == <<lmktVars, evalVars, baseVars, aggVars, cvVars, sweepVars, accVars, shiftVars>>
notLmkt == <<trainVars, baseVars, aggVars, cvVars, sweepVars, accVars, shiftVars>>
notBase == <<trainVars, lmktVars, aggVars, cvVars, sweepVars, accVars, shiftVars>>
notAgg == <<trainVars, lmktVars, evalVars, baseVars, cvVars, sweepVars, accVars, shiftVars>>
notCv == <<trainVars, lmktVars, evalVars, baseVars, aggVars, sweepVars, accVars, shiftVars>>
notSweep == <<trainVars, lmktVars, evalVars, baseVars, aggVars, cvVars, accVars, shiftVars>>
notAcc == <<trainVars, lmktVars, evalVars, baseVars, aggVars, cvVars, sweepVars, shiftVars>>
notShift == <<trainVars, lmktVars, evalVars, baseVars, aggVars, cvVars, sweepVars, accVars>>

\* ------------------------------------------------------------------ bounds
MaxEpochs == 3
MaxLoss == 2
NumDialogues == 2   \* dialogues in a test split
MaxTurns == 2       \* evaluated turns of one dialogue
MaxBatchSize == 2
Scale == 1          \* a probability is k / Scale, k in 0 .. Scale
MaxKcs == 2         \* KCs of one turn
NumSubjects == 2    \* len(COMTA_SUBJECTS)
MaxEvalLen == 2     \* length of a label vector given to compute_all_metrics
MaxFoldResult == 1  \* the metric vectors a fold can return: FoldVector(0 .. MaxFoldResult)
MaxAccum == 3       \* args.grad_accum_steps
MaxBatches == 4     \* len(train_dataloader)
MaxFold == 2        \* fold values 0 .. MaxFold
MaxShiftTurns == 2  \* turns of a dialogue in a flat-baseline batch
MaxRows == 2        \* dialogues (rows) of a baseline batch
MaxCols == 2        \* width of labels[:, 1:] in a baseline batch
MaxTestBatches == 1 \* batches of the baseline test loader

\* ------------------------------------------------------------- common helpers
Min(a, b) == IF a <= b THEN a ELSE b
Max(a, b) == IF a >= b THEN a ELSE b

RECURSIVE SeqSum(_)
SeqSum(s) == IF s = <<>> THEN 0 ELSE Head(s) + SeqSum(Tail(s))

RECURSIVE SeqProd(_)
SeqProd(s) == IF s = <<>> THEN 1 ELSE Head(s) * SeqProd(Tail(s))

\* ======================================================================
\* Training loop driver: best-checkpoint selection
\* ======================================================================

\* Python's None for best_val_loss; losses are >= 0, so -1 is no loss value.
None == -1

\* Average validation losses an epoch can produce (BCE means, >= 0; 0 included).
LossValues == 0 .. MaxLoss

\* Python truthiness of `best_val_loss` in `not best_val_loss`.
Truthy(x) == x # None /\ x # 0

\* `if not best_val_loss or avg_val_loss < best_val_loss` (lines 253, 487).
IsBest(best, avg_val_loss) == (~Truthy(best)) \/ avg_val_loss < best

\* args.model_name (asserted non-empty by train, line 110).
MODEL_NAME == "model"

\* `args.model_name + (f"_{fold}" if fold else "")`, with ".pt" for a baseline
\* (lines 255, 489): the name given to get_checkpoint_path when saving.
SaveName(fam, name, fd) ==
    <<name>> \o (IF fd # 0 THEN <<"_", fd>> ELSE <<>>) \o (IF fam = "baseline" THEN <<".pt">> ELSE <<>>)

\* A load that looks for the checkpoint without the fold suffix.
LoadName_NoFold(fam, name, fd) ==
    <<name>> \o (IF fam = "baseline" THEN <<".pt">> ELSE <<>>)

\* The name test_* loads (lines 263-264, 508-509).
LoadName(fam, name, fd) ==
    <<name>> \o (IF fd # 0 THEN <<"_", fd>> ELSE <<>>) \o (IF fam = "baseline" THEN <<".pt">> ELSE <<>>)

Folds == 0 .. MaxFold

CheckpointNames == {SaveName(fam, MODEL_NAME, fd) : fam \in {"lmkt", "baseline"}, fd \in Folds}

NoFile == [run |-> "none", epoch |-> 0]

\* What an earlier run may have left in the checkpoint directory.
StaleFile == [run |-> "earlier", epoch |-> 1]

TrainIdle ==
    /\ family = "none"
    /\ epochs = 0
    /\ epoch = 0
    /\ val_losses = <<>>
    /\ best_val_loss = None
    /\ checkpoint = 0
    /\ train_pc = "idle"
    /\ train_fold = 0
    /\ disk = <<>>
    /\ test_calls = <<>>

TrainInit ==
    /\ family \in {"lmkt", "baseline"}
    /\ epochs \in 0 .. MaxEpochs
    /\ epoch = 0
    /\ val_losses = <<>>
    /\ best_val_loss = None
    /\ checkpoint = 0
    /\ train_pc = "loop"
    /\ train_fold \in Folds
    /\ \E stale \in BOOLEAN :
          disk = [p \in CheckpointNames |-> IF stale THEN StaleFile ELSE NoFile]
    /\ test_calls = <<>>

\* One iteration of `for epoch in range(args.epochs)`: the training and
\* validation passes produce avg_val_loss, then the checkpoint decision.
TrainEpoch ==
    /\ train_pc = "loop"
    /\ epoch < epochs
    /\ \E avg_val_loss \in LossValues :
        /\ val_losses' = Append(val_losses, avg_val_loss)
        /\ IF IsBest(best_val_loss, avg_val_loss)
           THEN /\ checkpoint' = epoch + 1
                /\ disk' = [disk EXCEPT ![SaveName(family, MODEL_NAME, train_fold)] =
                                            [run |-> "this", epoch |-> epoch + 1]]
                /\ best_val_loss' = avg_val_loss
           ELSE UNCHANGED <<checkpoint, disk, best_val_loss>>
    /\ epoch' = epoch + 1
    /\ UNCHANGED <<family, epochs, train_pc, train_fold, test_calls>>
    /\ UNCHANGED notTrain

\* Loop exhausted: `return test_lmkt(args, fold)` / `return test_baseline(args, fold)`,
\* up to the load of the trained model (lines 263-264, 506-509); a missing
\* checkpoint file is an error of the load.
TrainFinish ==
    /\ train_pc = "loop"
    /\ epoch = epochs
    /\ LET name == LoadName(family, MODEL_NAME, train_fold)
           found == IF name \in DOMAIN disk THEN disk[name] ELSE NoFile
       IN /\ test_calls' = Append(test_calls, [model_name |-> MODEL_NAME, fold |-> train_fold,
                                               after_epoch |-> epoch, name |-> name,
                                               loaded |-> found])
          /\ train_pc' = IF found = NoFile THEN "error" ELSE "test"
    /\ UNCHANGED <<family, epochs, epoch, val_losses, best_val_loss, checkpoint, train_fold, disk>>
    /\ UNCHANGED notTrain

\* The rest of test_* (lines 265-324, 510-555): the evaluation reads the
\* loaded model and writes metrics files only; train_* returns its result.
TestReturn ==
    /\ train_pc = "test"
    /\ train_pc' = "done"
    /\ UNCHANGED <<family, epochs, epoch, val_losses, best_val_loss, checkpoint, train_fold, disk,
                   test_calls>>
    /\ UNCHANGED notTrain

\* ======================================================================
\* test_lmkt: prediction stream and final-turn extraction
\* ======================================================================

LmktIdle ==
    /\ test_set = <<>>
    /\ batch_size = 0
    /\ batch_idx = 0
    /\ dialogue_idx_to_sample_idxs = <<>>

EvalIdle ==
    /\ all_labels = <<>>
    /\ all_preds = <<>>
    /\ final_turn_labels = <<>>
    /\ final_turn_preds = <<>>
    /\ test_pc = "idle"
    /\ error = ""

\* A probability value k stands for k / Scale.
ProbValues == 0 .. Scale

\* One evaluated turn: meta_data["dialogue_idx"], its correctness label and the
\* correctness probability the (opaque) model returns for it.
Samples == [dialogue_idx : 1 .. NumDialogues, label : {0, 1}, pred : ProbValues]

\* The test split: the turns of dialogue 1, then those of dialogue 2, ...
\* (the dataset lists each dialogue's turns together; the loader does not shuffle).
Grouped(ds) ==
    \A i \in 1 .. Len(ds) - 1 :
        \/ ds[i + 1].dialogue_idx = ds[i].dialogue_idx
        \/ ds[i + 1].dialogue_idx = ds[i].dialogue_idx + 1

TestSets ==
    {ds \in UNION {[1 .. n -> Samples] : n \in 0 .. NumDialogues * MaxTurns} :
        /\ Len(ds) > 0 => ds[1].dialogue_idx = 1
        /\ Grouped(ds)
        /\ \A d \in 1 .. NumDialogues :
              Cardinality({i \in 1 .. Len(ds) : ds[i].dialogue_idx = d}) <= MaxTurns}

\* len(test_dataloader): batches of batch_size, the last one possibly shorter.
NumBatches(ds, bs) == (Len(ds) + bs - 1) \div bs

\* The batch_idx-th batch (0-based) of the loader.
BatchOf(ds, bs, b) == SubSeq(ds, b * bs + 1, Min((b + 1) * bs, Len(ds)))

\* dict.setdefault(k, []).append(v) on a dict kept as its items in insertion order.
SetDefaultAppend(d, k, v) ==
    IF \E i \in 1 .. Len(d) : d[i].key = k
    THEN [i \in 1 .. Len(d) |->
            IF d[i].key = k THEN [key |-> k, val |-> Append(d[i].val, v)] ELSE d[i]]
    ELSE Append(d, [key |-> k, val |-> <<v>>])

\* The position recorded for sample sample_idx of batch batch_idx (line 294).
SampleIdx(b, sample_idx) == b + sample_idx

\* `for sample_idx, sample in enumerate(batch["meta_data"])` (lines 293-294).
RECURSIVE RecordBatch(_, _, _, _)
RecordBatch(d, batch, b, sample_idx) ==
    IF sample_idx >= Len(batch) THEN d
    ELSE RecordBatch(
            SetDefaultAppend(d, batch[sample_idx + 1].dialogue_idx, SampleIdx(b, sample_idx)),
            batch, b, sample_idx + 1)

\* xs[idxs[-1]] for a Python list xs and 0-based positions idxs.
AtLast(xs, idxs) == xs[idxs[Len(idxs)] + 1]

LmktInit ==
    /\ test_set \in TestSets
    /\ batch_size \in 1 .. MaxBatchSize
    /\ batch_idx = 0
    /\ dialogue_idx_to_sample_idxs = <<>>
    /\ all_labels = <<>>
    /\ all_preds = <<>>
    /\ final_turn_labels = <<>>
    /\ final_turn_preds = <<>>
    /\ test_pc = "batches"
    /\ error = ""

\* One iteration of `for batch_idx, batch in enumerate(test_dataloader)`.
LmktBatch ==
    /\ test_pc = "batches"
    /\ batch_idx < NumBatches(test_set, batch_size)
    /\ LET batch == BatchOf(test_set, batch_size, batch_idx) IN
        /\ dialogue_idx_to_sample_idxs' =
              RecordBatch(dialogue_idx_to_sample_idxs, batch, batch_idx, 0)
        /\ all_labels' = all_labels \o [i \in 1 .. Len(batch) |-> batch[i].label]
        /\ all_preds' = all_preds \o [i \in 1 .. Len(batch) |-> batch[i].pred]
    /\ batch_idx' = batch_idx + 1
    /\ UNCHANGED <<test_set, batch_size, final_turn_labels, final_turn_preds, test_pc, error>>
    /\ UNCHANGED notLmkt

\* After the loop (lines 305-307): the average loss, then the final-turn lists.
\* An empty loader makes `total_loss / len(test_dataloader)` divide by zero.
LmktFinalTurns ==
    /\ test_pc = "batches"
    /\ batch_idx = NumBatches(test_set, batch_size)
    /\ IF NumBatches(test_set, batch_size) = 0
       THEN /\ test_pc' = "error"
            /\ error' = "ZeroDivisionError"
            /\ UNCHANGED <<final_turn_labels, final_turn_preds>>
       ELSE /\ error' = error
            /\ final_turn_labels' =
                  [k \in 1 .. Len(dialogue_idx_to_sample_idxs) |->
                      AtLast(all_labels, dialogue_idx_to_sample_idxs[k].val)]
            /\ final_turn_preds' =
                  [k \in 1 .. Len(dialogue_idx_to_sample_idxs) |->
                      AtLast(all_preds, dialogue_idx_to_sample_idxs[k].val)]
            /\ test_pc' = "metrics"
    /\ UNCHANGED <<lmktVars, all_labels, all_preds>>
    /\ UNCHANGED notLmkt

\* ======================================================================
\* train / test dispatch, test_baseline
\* ======================================================================

\* The label padding value (lines 352, 544).
IGNORE == -100

BASELINE_MODELS == {"dkt-multi", "dkt-sem", "dkt", "akt", "dkvmn", "saint", "simplekt"}

\* Values of args.model_type: the supported ones and one that is none of them.
ModelTypes == {"lmkt", "random", "majority", "bogus"} \cup BASELINE_MODELS

BaseIdle ==
    /\ entry = "none"
    /\ model_type = "none"
    /\ model = "unset"
    /\ trained = FALSE
    /\ train_majority = 0
    /\ test_loader = <<>>
    /\ loader_pos = 0
    /\ corr_probs = <<>>
    /\ loss_in = <<>>

\* batch["labels"] of one batch: one row per dialogue, padded to the longest.
\* Column 0 is the first turn (a real label); the other columns hold real
\* labels or the ignore value.
LabelRows(cols) ==
    {row \in [1 .. cols + 1 -> {IGNORE, 0, 1}] : row[1] # IGNORE}

\* The batch is as wide as its longest dialogue: some row ends in a real label.
LabelBatches ==
    {b \in UNION {[1 .. rows -> LabelRows(cols)] :
                     rows \in 1 .. MaxRows, cols \in 0 .. MaxCols} :
        \E r \in 1 .. Len(b) : b[r][Len(b[r])] # IGNORE}

TestLoaders == UNION {[1 .. n -> LabelBatches] : n \in 0 .. MaxTestBatches}

\* labels = batch["labels"][:, 1:]
DropFirst(labels) == [r \in 1 .. Len(labels) |-> Tail(labels[r])]

\* Row-major flattening of a matrix (view(-1), and boolean-mask indexing order).
RECURSIVE Flatten(_)
Flatten(m) == IF m = <<>> THEN <<>> ELSE Head(m) \o Flatten(Tail(m))

\* xs[mask] for flat sequences: the entries whose label is not the ignore value.
RECURSIVE Masked(_, _)
Masked(xs, labels) ==
    IF xs = <<>> THEN <<>>
    ELSE (IF Head(labels) # IGNORE THEN <<Head(xs)>> ELSE <<>>)
         \o Masked(Tail(xs), Tail(labels))

\* mask.sum(dim=1) - 1 for one row.
FinalIdx(row) == Cardinality({t \in 1 .. Len(row) : row[t] # IGNORE}) - 1

\* row[i] for a Python (0-based, negative from the end) index.
PyIndex(row, i) == IF i < 0 THEN row[Len(row) + i + 1] ELSE row[i + 1]

\* labels[torch.arange(mask.shape[0]), final_idxs] (lines 547-549).
FinalOfRows(m, labels) ==
    [r \in 1 .. Len(m) |-> PyIndex(m[r], FinalIdx(labels[r]))]

\* get_baseline_loss, lines 351-355: the pairs BCELoss receives.
BceInputs(probs, labels) ==
    LET lf == Flatten(labels)
        pf == Flatten(probs)
        keep == Masked(lf, lf)
        kept == Masked(pf, lf)
    IN  [i \in 1 .. Len(keep) |-> <<kept[i], keep[i]>>]

\* The correctness probabilities a trained baseline returns for batch b: the
\* architecture is opaque, so each position holds a value of its own.
ModelCorrProbs(b, labels) ==
    [r \in 1 .. Len(labels) |->
        [t \in 1 .. Len(labels[r]) |-> [batch |-> b, row |-> r, pos |-> t]]]

\* All labels of a dataset, first turns included.
RECURSIVE DatasetLabels(_)
DatasetLabels(loader) ==
    IF loader = <<>> THEN <<>>
    ELSE LET f == Flatten(Head(loader)) IN Masked(f, f) \o DatasetLabels(Tail(loader))

\* DKTDataset.majority_class of a dataset.
MajorityClass(loader) ==
    LET ls == DatasetLabels(loader)
        ones == Cardinality({i \in 1 .. Len(ls) : ls[i] = 1})
    IN  IF 2 * ones >= Len(ls) THEN 1 ELSE 0

\* test_dataset.majority_class (lines 522, 541).
PolicyMajorityClass(train_major, loader) == MajorityClass(loader)

\* roc_auc_score is undefined unless exactly two classes are present.
ClassesOf(labels) == {labels[i] : i \in 1 .. Len(labels)}
\* A roc_auc_score that answers a one-class input with a value (nan).
RocAucRaises_Nan(labels) == FALSE

RocAucRaises(labels) == Cardinality(ClassesOf(labels)) # 2

\* compute_all_metrics (lines 133-148): the all-turn metrics, then the
\* final-turn metrics, then the report file.
ComputeAllMetrics(labels, final_labels) ==
    IF RocAucRaises(labels) \/ RocAucRaises(final_labels)
    THEN [raised |-> TRUE, report |-> FALSE]
    ELSE [raised |-> FALSE, report |-> TRUE]

BaseInit ==
    /\ entry \in {"train", "test"}
    /\ model_type \in ModelTypes
    /\ model = "unset"
    /\ trained = FALSE
    /\ train_majority \in {0, 1}
    /\ test_loader = <<>>
    /\ loader_pos = 0
    /\ corr_probs = <<>>
    /\ loss_in = <<>>
    /\ all_labels = <<>>
    /\ all_preds = <<>>
    /\ final_turn_labels = <<>>
    /\ final_turn_preds = <<>>
    /\ test_pc = "dispatch"
    /\ error = ""

\* train(args) / test(args): the choice of the per-fold function.
Dispatch ==
    /\ test_pc = "dispatch"
    /\ test_pc' = IF model_type = "lmkt" THEN "lmkt"
                  ELSE IF entry = "train" THEN "train_setup" ELSE "test_load"
    /\ UNCHANGED <<all_labels, all_preds, final_turn_labels, final_turn_preds, error>>
    /\ UNCHANGED baseVars
    /\ UNCHANGED notBase

\* get_baseline_model (lines 358-385): one of the seven architectures, or the
\* configuration error.
GetBaselineModelRaises(mt) == mt \notin BASELINE_MODELS

\* train_baseline up to the model's construction (lines 431-442).
TrainBaselineSetup ==
    /\ test_pc = "train_setup"
    /\ IF GetBaselineModelRaises(model_type)
       THEN test_pc' = "error" /\ error' = "ModelNotSupported"
       ELSE test_pc' = "train_loop" /\ error' = error
    /\ UNCHANGED <<all_labels, all_preds, final_turn_labels, final_turn_preds>>
    /\ UNCHANGED baseVars
    /\ UNCHANGED notBase

\* The epoch loop of train_baseline (lines 459-491; its checkpoint logic is
\* TrainEpoch), then `return test_baseline(args, fold)`.
TrainBaselineLoop ==
    /\ test_pc = "train_loop"
    /\ trained' = TRUE
    /\ test_pc' = "test_load"
    /\ UNCHANGED <<all_labels, all_preds, final_turn_labels, final_turn_preds, error>>
    /\ UNCHANGED <<entry, model_type, model, train_majority, test_loader, loader_pos,
                   corr_probs, loss_in>>
    /\ UNCHANGED notBase

\* test_baseline up to the batch loop (lines 495-530).
BaselineLoad ==
    /\ test_pc = "test_load"
    /\ IF model_type \in BASELINE_MODELS
       THEN IF GetBaselineModelRaises(model_type)
            THEN test_pc' = "error" /\ error' = "ModelNotSupported" /\ model' = model
            ELSE test_pc' = "batches" /\ error' = error /\ model' = "model"
       ELSE test_pc' = "batches" /\ error' = error /\ model' = "None"
    /\ \E loader \in TestLoaders : test_loader' = loader
    /\ UNCHANGED <<all_labels, all_preds, final_turn_labels, final_turn_preds>>
    /\ UNCHANGED <<entry, model_type, trained, train_majority, loader_pos, corr_probs, loss_in>>
    /\ UNCHANGED notBase

\* Lines 534-542 assign corr_probs and loss in three branches; with no model
\* and a model_type that is neither "random" nor "majority" none of them runs.
NoBranchTaken == model = "None" /\ model_type \notin {"random", "majority"}

\* The predictions of one batch (lines 534-542).
BatchCorrProbs(labels) ==
    IF model # "None" THEN {ModelCorrProbs(loader_pos + 1, labels)}
    ELSE IF model_type = "random"
    THEN {m \in [1 .. Len(labels) -> [1 .. Len(labels[1]) -> {0, 1}]] : TRUE}
    ELSE {[r \in 1 .. Len(labels) |-> [t \in 1 .. Len(labels[r]) |->
              PolicyMajorityClass(train_majority, test_loader)]]}

\* One iteration of `for batch in tqdm(test_dataloader)` (lines 532-549).
BaselineBatch ==
    /\ test_pc = "batches"
    /\ loader_pos < Len(test_loader)
    /\ LET labels == DropFirst(test_loader[loader_pos + 1]) IN
       IF NoBranchTaken
       THEN \* line 543: `loss` was never assigned
            /\ test_pc' = "error" /\ error' = "UnboundLocalError"
            /\ UNCHANGED <<all_labels, all_preds, final_turn_labels, final_turn_preds,
                           loader_pos, corr_probs, loss_in>>
       ELSE \E probs \in BatchCorrProbs(labels) :
          IF Len(labels[1]) = 0
          THEN \* line 548: index -1 into a dimension of size 0
               /\ test_pc' = "error" /\ error' = "IndexError"
               /\ corr_probs' = probs
               /\ loss_in' = IF model # "None" THEN BceInputs(probs, labels) ELSE <<>>
               /\ UNCHANGED <<all_labels, all_preds, final_turn_labels, final_turn_preds,
                              loader_pos>>
          ELSE /\ corr_probs' = probs
               /\ loss_in' = IF model # "None" THEN BceInputs(probs, labels) ELSE <<>>
               /\ all_labels' = all_labels \o Masked(Flatten(labels), Flatten(labels))
               /\ all_preds' = all_preds \o Masked(Flatten(probs), Flatten(labels))
               /\ final_turn_labels' = final_turn_labels \o FinalOfRows(labels, labels)
               /\ final_turn_preds' = final_turn_preds \o FinalOfRows(probs, labels)
               /\ loader_pos' = loader_pos + 1
               /\ UNCHANGED <<test_pc, error>>
    /\ UNCHANGED <<entry, model_type, model, trained, train_majority, test_loader>>
    /\ UNCHANGED notBase

\* After the loop (lines 552-553): the average loss, then compute_all_metrics.
BaselineMetrics ==
    /\ test_pc = "batches"
    /\ loader_pos = Len(test_loader)
    /\ IF Len(test_loader) = 0
       THEN test_pc' = "error" /\ error' = "ZeroDivisionError"
       ELSE IF ComputeAllMetrics(all_labels, final_turn_labels).raised
       THEN test_pc' = "error" /\ error' = "ValueError"
       ELSE test_pc' = "report" /\ error' = error
    /\ UNCHANGED <<all_labels, all_preds, final_turn_labels, final_turn_preds>>
    /\ UNCHANGED baseVars
    /\ UNCHANGED notBase

\* ======================================================================
\* KC-probability aggregators
\* ======================================================================

RECURSIVE Pow(_, _)
Pow(b, e) == IF e = 0 THEN 1 ELSE b * Pow(b, e - 1)

\* Products of up to MaxKcs probabilities are kept exactly, as numerators over
\* Scale^MaxKcs; One is the probability 1.
One == Pow(Scale, MaxKcs)

\* Tensor.prod() of a sequence of at most MaxKcs probabilities k / Scale.
Prod(ps) == SeqProd(ps) * Pow(Scale, MaxKcs - Len(ps))

\* torch.nn.BCELoss (mean reduction): -mean(log q_t), where q_t is the
\* probability given to the true label of turn t.  The loss is a function of
\* the multiset of the q_t, which stands for it here.
Likelihood(pair) == IF pair[2] = 1 THEN pair[1] ELSE One - pair[1]

BCELoss(pairs) ==
    [q \in 0 .. One |-> Cardinality({i \in 1 .. Len(pairs) : Likelihood(pairs[i]) = q})]

NoOutput == [loss |-> <<>>, kc_probs_grouped |-> <<>>, corr_probs |-> <<>>]

AggIdle ==
    /\ agg_kind = "idle"
    /\ agg_batch = <<>>
    /\ agg_done = {}
    /\ out_unpacked = NoOutput
    /\ out_packed = NoOutput
    /\ out_baseline = NoOutput

\* ---- language-model batches ----

\* One turn of an LMKT batch: its KC count, the probability the model gives
\* to each of its KCs, the probability the model happens to give at sequence
\* position 0 (what a padded answer position gathers), and its label.
LmktTurns ==
    UNION {[num_kcs : {n}, kc_probs : [1 .. n -> ProbValues],
            pad_prob : ProbValues, label : {0, 1}] : n \in 1 .. MaxKcs}

\* Batches of one or two turns.
AggTurnCounts == {1, 2}
LmktBatches == UNION {[1 .. n -> LmktTurns] : n \in AggTurnCounts}

\* LMKTCollatorUnpacked: one row per (turn, KC), turns in order.
RECURSIVE UnpackedKcProbs(_)
UnpackedKcProbs(turns) ==
    IF turns = <<>> THEN <<>> ELSE Head(turns).kc_probs \o UnpackedKcProbs(Tail(turns))

NumKcsOf(turns) == [t \in 1 .. Len(turns) |-> turns[t].num_kcs]
LabelsOf(turns) == [t \in 1 .. Len(turns) |-> turns[t].label]

\* LMKTCollatorPacked: one row per turn, padded to the largest KC count of the
\* batch; last_idxs holds each KC's answer position (> 0), 0 where padded.
RECURSIVE SeqMax(_)
SeqMax(xs) == IF xs = <<>> THEN 0 ELSE Max(Head(xs), SeqMax(Tail(xs)))

PackedWidth(turns) == SeqMax(NumKcsOf(turns))

PackedLastIdxs(turns) ==
    [t \in 1 .. Len(turns) |->
        [k \in 1 .. PackedWidth(turns) |-> IF k <= turns[t].num_kcs THEN k ELSE 0]]

\* The packed model output: softmax at every gathered position (line 187).
PackedKcProbs(turns) ==
    [t \in 1 .. Len(turns) |->
        [k \in 1 .. PackedWidth(turns) |->
            IF k <= turns[t].num_kcs THEN turns[t].kc_probs[k] ELSE turns[t].pad_prob]]

\* xs[a : b] for a Python list (0-based, end exclusive).
Slice(xs, a, b) == SubSeq(xs, a + 1, Min(b, Len(xs)))

\* Mutation: the counter advances by one row per turn.
NextCounter_ByOne(num_kc_counter, num_kcs) == num_kc_counter + 1

\* `num_kc_counter += num_kcs` (line 168).
NextCounter(num_kc_counter, num_kcs) == num_kc_counter + num_kcs

\* The loop of lines 162-168: (kc_probs_grouped, corr_probs) for the KC counts
\* still to process, with num_kc_counter rows already consumed.
RECURSIVE GroupUnpacked(_, _, _)
GroupUnpacked(kc_probs, num_kcs_list, num_kc_counter) ==
    IF num_kcs_list = <<>> THEN [grouped |-> <<>>, corr |-> <<>>]
    ELSE LET num_kcs == Head(num_kcs_list)
             group == Slice(kc_probs, num_kc_counter, num_kc_counter + num_kcs)
             rest == GroupUnpacked(kc_probs, Tail(num_kcs_list),
                                   NextCounter(num_kc_counter, num_kcs))
         IN  [grouped |-> <<group>> \o rest.grouped,
              corr |-> <<Prod(group)>> \o rest.corr]

Zip(ps, ls) == [i \in 1 .. Len(ps) |-> <<ps[i], ls[i]>>]

\* get_lmkt_loss_unpacked, lines 161-172.
GetLmktLossUnpacked(kc_probs, num_kcs_list, labels) ==
    LET g == GroupUnpacked(kc_probs, num_kcs_list, 0) IN
    [loss |-> BCELoss(Zip(g.corr, labels)),
     kc_probs_grouped |-> g.grouped,
     corr_probs |-> g.corr]

\* Mutation: no position is overwritten with 1.
PackedPadMask_Never(last_idx) == FALSE

\* `batch["last_idxs"] == 0`: the positions masked_scatter overwrites (line 191).
PackedPadMask(last_idx) == last_idx = 0

\* get_lmkt_loss_packed, lines 188-195.
GetLmktLossPacked(kc_probs, last_idxs, num_kcs_list, labels) ==
    LET grouped == [t \in 1 .. Len(kc_probs) |-> Slice(kc_probs[t], 0, num_kcs_list[t])]
        masked == [t \in 1 .. Len(kc_probs) |->
                      [k \in 1 .. Len(kc_probs[t]) |->
                          IF PackedPadMask(last_idxs[t][k]) THEN Scale ELSE kc_probs[t][k]]]
        corr == [t \in 1 .. Len(masked) |-> Prod(masked[t])]
    IN  [loss |-> BCELoss(Zip(corr, labels)),
         kc_probs_grouped |-> grouped,
         corr_probs |-> corr]

\* ---- baseline batches ----

\* KC identifiers; the collator pads kc_ids with the first.
KcIds == {"kc_a", "kc_b"}
PadKcId == "kc_a"

\* One turn of a baseline dialogue: its KC count, its kc_ids row (real ids,
\* then padding), and the model's output y at its position.
BaselineTurns ==
    {t \in [num_kcs : 0 .. MaxKcs, kc_ids : [1 .. MaxKcs -> KcIds], y : [KcIds -> ProbValues]] :
        \A k \in (t.num_kcs + 1) .. MaxKcs : t.kc_ids[k] = PadKcId}

\* A batch of one dialogue of two turns; labels as in batch["labels"].
BaselineAggBatches ==
    [turns : [1 .. 2 -> BaselineTurns], labels : LabelRows(1)]

\* arange(max_num_kcs) >= num_kcs (line 344), for 1-based slot k.
KcPadMask(k, num_kcs) == (k - 1) >= num_kcs

\* get_baseline_loss (lines 341-356) for a batch given as rows of turns.
GetBaselineLoss(rows, labels) ==
    LET corr == [b \in 1 .. Len(rows) |->
                    [t \in 1 .. Len(rows[b]) - 1 |->
                        Prod([k \in 1 .. MaxKcs |->
                            IF KcPadMask(k, rows[b][t + 1].num_kcs) THEN Scale
                            ELSE rows[b][t].y[rows[b][t + 1].kc_ids[k]]])]]
    IN  [loss |-> BCELoss(BceInputs(corr, DropFirst(labels))),
         kc_probs_grouped |-> <<>>,
         corr_probs |-> corr]

AggInit ==
    /\ agg_kind \in {"lmkt", "baseline"}
    /\ agg_batch \in IF agg_kind = "lmkt" THEN LmktBatches ELSE BaselineAggBatches
    /\ agg_done = {}
    /\ out_unpacked = NoOutput
    /\ out_packed = NoOutput
    /\ out_baseline = NoOutput

\* get_loss = get_lmkt_loss_unpacked (pack_kcs off) on the batch.
RunUnpacked ==
    /\ agg_kind = "lmkt"
    /\ "unpacked" \notin agg_done
    /\ out_unpacked' = GetLmktLossUnpacked(UnpackedKcProbs(agg_batch), NumKcsOf(agg_batch),
                                           LabelsOf(agg_batch))
    /\ agg_done' = agg_done \cup {"unpacked"}
    /\ UNCHANGED <<agg_kind, agg_batch, out_packed, out_baseline>>
    /\ UNCHANGED notAgg

\* get_loss = get_lmkt_loss_packed (pack_kcs on) on the same turns.
RunPacked ==
    /\ agg_kind = "lmkt"
    /\ "packed" \notin agg_done
    /\ out_packed' = GetLmktLossPacked(PackedKcProbs(agg_batch), PackedLastIdxs(agg_batch),
                                       NumKcsOf(agg_batch), LabelsOf(agg_batch))
    /\ agg_done' = agg_done \cup {"packed"}
    /\ UNCHANGED <<agg_kind, agg_batch, out_unpacked, out_baseline>>
    /\ UNCHANGED notAgg

\* get_baseline_loss(y, batch).
RunBaseline ==
    /\ agg_kind = "baseline"
    /\ "baseline" \notin agg_done
    /\ out_baseline' = GetBaselineLoss(<<agg_batch.turns>>, <<agg_batch.labels>>)
    /\ agg_done' = agg_done \cup {"baseline"}
    /\ UNCHANGED <<agg_kind, agg_batch, out_unpacked, out_packed>>
    /\ UNCHANGED notAgg

\* ======================================================================
\* train / test over folds: crossval
\* ======================================================================

\* The metrics of a report (line 94; the vector of lines 324 and 555).
NumMetrics == 11

\* range(1, 6)
NumFolds == 5

NoSummary == [raw |-> <<>>, results |-> <<>>]

CvIdle ==
    /\ cv_entry = "none"
    /\ crossval_on = FALSE
    /\ split_by_subject = FALSE
    /\ calls = <<>>
    /\ eval_in = [labels |-> <<>>, final_labels |-> <<>>]
    /\ reports = {}
    /\ metrics_agg = <<>>
    /\ summary = NoSummary
    /\ returned = <<>>
    /\ cv_pc = "idle"

\* `folds = COMTA_SUBJECTS if args.split_by_subject else range(1, 6)`; without
\* cross-validation the one fold is get_default_fold(args).
FoldsOf(cv, by_subject) ==
    IF ~cv THEN <<1>>
    ELSE IF by_subject THEN [i \in 1 .. NumSubjects |-> i]
    ELSE [i \in 1 .. NumFolds |-> i]

\* Label vectors of an evaluation: all evaluated turns, and the final turns
\* (one per dialogue, so a selection of the former).
LabelVecs == UNION {[1 .. n -> {0, 1}] : n \in 1 .. MaxEvalLen}

RECURSIVE IsSubSeq(_, _)
IsSubSeq(a, b) ==
    IF a = <<>> THEN TRUE
    ELSE IF b = <<>> THEN FALSE
    ELSE IF Head(a) = Head(b) THEN IsSubSeq(Tail(a), Tail(b)) \/ IsSubSeq(a, Tail(b))
    ELSE IsSubSeq(a, Tail(b))

EvalInputs ==
    {e \in [labels : LabelVecs, final_labels : LabelVecs] : IsSubSeq(e.final_labels, e.labels)}

\* The vector np.array([loss, *all_metrics, *final_metrics]) of a fold whose
\* results have quality q: metric i is q * (10 i + 1), in thousandths.
FoldVector(q) == [i \in 1 .. NumMetrics |-> q * (10 * i + 1)]

\* Column i of the stacked vectors (metrics_np[:, i]).
Column(m, i) == [f \in 1 .. Len(m) |-> m[f][i]]

SumSq(xs) == SeqSum([j \in 1 .. Len(xs) |-> xs[j] * xs[j]])

\* metrics_np.mean(axis=0)[i], as the exact fraction <<numerator, denominator>>.
MeanAxis0(m, i) == <<SeqSum(Column(m, i)), Len(m)>>

\* The sample standard deviation (ddof = 1) in the place of the population one.
StdAxis0_Sample(m, i) ==
    LET xs == Column(m, i) IN
    <<Len(m) * SumSq(xs) - SeqSum(xs) * SeqSum(xs), Len(m) * (Len(m) - 1)>>

\* metrics_np.std(axis=0)[i] (population standard deviation), as the fraction
\* under the square root: the mean squared deviation from the mean.
StdAxis0(m, i) ==
    LET xs == Column(m, i) IN
    <<Len(m) * SumSq(xs) - SeqSum(xs) * SeqSum(xs), Len(m) * Len(m)>>

\* f"{x:.2f}" of x = num / den thousandths (x >= 0): the number of hundredths
\* printed, the nearest to x.
Format2f(frac) == (frac[1] + 5 * frac[2]) \div (10 * frac[2])

\* f"{x:.2f}" of x = sqrt(num / den) thousandths.
RECURSIVE HundredthsOfRoot(_, _)
HundredthsOfRoot(frac, h) ==
    IF frac[1] < (10 * h + 5) * (10 * h + 5) * frac[2] THEN h
    ELSE HundredthsOfRoot(frac, h + 1)

FormatRoot2f(frac) == HundredthsOfRoot(frac, 0)

\* The lines of result_str (lines 92-96): one per metric.
ResultLines(m) ==
    [i \in 1 .. NumMetrics |->
        [avg |-> Format2f(MeanAxis0(m, i)), std |-> FormatRoot2f(StdAxis0(m, i))]]

CvInit ==
    /\ cv_entry \in {"train", "test"}
    /\ crossval_on \in BOOLEAN
    /\ split_by_subject \in (IF crossval_on THEN BOOLEAN ELSE {FALSE})
    /\ calls = <<>>
    /\ eval_in = [labels |-> <<>>, final_labels |-> <<>>]
    /\ reports = {}
    /\ metrics_agg = <<>>
    /\ summary = NoSummary
    /\ returned = <<>>
    /\ cv_pc = "run"

\* One call fn(args, fold) (lines 87, 116, 124): train_* ends in test_*, which
\* collects the label vectors and calls compute_all_metrics.  An exception of
\* compute_all_metrics has no handler on the way up.
CallFold ==
    /\ cv_pc = "run"
    /\ Len(calls) < Len(FoldsOf(crossval_on, split_by_subject))
    /\ LET fold == FoldsOf(crossval_on, split_by_subject)[Len(calls) + 1] IN
       \E e \in EvalInputs, q \in 0 .. MaxFoldResult :
          /\ eval_in' = e
          /\ IF ComputeAllMetrics(e.labels, e.final_labels).raised
             THEN /\ cv_pc' = "raised"
                  /\ calls' = Append(calls, [fold |-> fold, vector |-> <<>>])
                  /\ UNCHANGED <<reports, metrics_agg, returned>>
             ELSE /\ reports' = reports \cup {fold}
                  /\ calls' = Append(calls, [fold |-> fold, vector |-> FoldVector(q)])
                  /\ IF crossval_on
                     THEN /\ metrics_agg' = Append(metrics_agg, FoldVector(q))
                          /\ UNCHANGED <<returned, cv_pc>>
                     ELSE /\ returned' = FoldVector(q)
                          /\ cv_pc' = "done"
                          /\ UNCHANGED metrics_agg
    /\ UNCHANGED <<cv_entry, crossval_on, split_by_subject, summary>>
    /\ UNCHANGED notCv

\* crossval after its loop (lines 89-103).
CrossvalSummary ==
    /\ cv_pc = "run"
    /\ crossval_on
    /\ Len(calls) = Len(FoldsOf(crossval_on, split_by_subject))
    /\ LET metrics_np == metrics_agg IN
        /\ summary' = [raw |-> metrics_agg, results |-> ResultLines(metrics_np)]
        /\ returned' = metrics_np
    /\ cv_pc' = "done"
    /\ UNCHANGED <<cv_entry, crossval_on, split_by_subject, calls, eval_in, reports, metrics_agg>>
    /\ UNCHANGED notCv

\* ======================================================================
\* hyperparam_sweep
\* ======================================================================

\* The grids of lines 58-59 and 67-68; learning rates in units of 1e-5.
LmktLrs == <<5, 10, 20, 30>>
LmktRanks == <<2, 4, 8, 16, 32>>
BaselineLrs == <<10, 20, 50, 100, 200, 500>>
BaselineEmbSizes == <<8, 16, 32, 64, 128, 256>>

\* The nested loops, in the order they run: <<lr, r>> or <<lr, emb_size>>.
Product(outer, inner) ==
    [n \in 1 .. Len(outer) * Len(inner) |->
        <<outer[((n - 1) \div Len(inner)) + 1], inner[((n - 1) % Len(inner)) + 1]>>]

Grid(mt) ==
    IF mt = "lmkt" THEN Product(LmktLrs, LmktRanks) ELSE Product(BaselineLrs, BaselineEmbSizes)

\* f"hpsweep_{dataset}_{tag_src}_{model_type}_lr{lr}_r{r}" (or _es{emb_size}).
ModelName(a, combo) ==
    <<"hpsweep", a.dataset, a.model_type, "lr", combo[1],
      IF a.model_type = "lmkt" THEN "r" ELSE "es", combo[2]>>

SweepModelTypes == {"lmkt", "dkt"}

Datasets == {"comta", "mathdial"}

NoArgs == [model_type |-> "none"]

SweepIdle ==
    /\ sw_args = NoArgs
    /\ sw_plan = <<>>
    /\ model_names = <<>>
    /\ sw_results = <<>>
    /\ sw_runs = <<>>
    /\ sw_report = <<>>
    /\ sw_pc = "idle"

\* The metric vector of an evaluation that scores q: the AUC (index 2 of the
\* vector) grows with q and the other metrics follow FoldVector of the
\* opposite quality (a better model has the lower loss).
ScoredVector(q) == [FoldVector(MaxFoldResult - q) EXCEPT ![3] = 31 * q]

\* The scores of run n under a plan: one fold of one run scores plan.q, every
\* other evaluation scores plan.base.
PlannedScores(plan, n, num_folds) ==
    [f \in 1 .. num_folds |-> IF n = plan.run /\ f = plan.fold THEN plan.q ELSE plan.base]

SweepInit ==
    /\ \E mt \in SweepModelTypes, ds \in Datasets, tv \in BOOLEAN, cv \in BOOLEAN, sbs \in BOOLEAN :
          /\ (ds # "comta" => ~sbs)
          /\ sw_args = [model_type |-> mt, dataset |-> ds, hyperparam_sweep |-> TRUE,
                        testonval |-> tv, crossval |-> cv, split_by_subject |-> sbs,
                        model_name |-> <<>>, lr |-> None, r |-> None, lora_alpha |-> None,
                        emb_size |-> None]
          /\ \E run \in 1 .. Len(Grid(mt)), fold \in 1 .. Len(FoldsOf(ds = "comta", sbs)),
                q \in 0 .. MaxFoldResult, base \in 0 .. MaxFoldResult :
                sw_plan = [run |-> run, fold |-> fold, q |-> q, base |-> base]
    /\ model_names = <<>>
    /\ sw_results = <<>>
    /\ sw_runs = <<>>
    /\ sw_report = <<>>
    /\ sw_pc = "entry"

\* apply_defaults (lines 25-49): a default for each field that is None.
ApplyDefaults(a) ==
    [a EXCEPT !.lr = IF @ = None THEN (IF a.model_type = "lmkt" THEN 20 ELSE 100) ELSE @,
              !.r = IF @ = None /\ a.model_type = "lmkt" THEN 16 ELSE @,
              !.lora_alpha = IF @ = None /\ a.model_type = "lmkt" THEN 16 ELSE @,
              !.emb_size = IF @ = None /\ a.model_type # "lmkt" THEN 64 ELSE @]

\* train entered with args.hyperparam_sweep (lines 106-108), and the head of
\* hyperparam_sweep (lines 52-56).
SweepStart ==
    /\ sw_pc = "entry"
    /\ sw_args.hyperparam_sweep
    /\ sw_args' = [ApplyDefaults(sw_args) EXCEPT !.hyperparam_sweep = FALSE,
                                                 !.testonval = TRUE,
                                                 !.crossval = (sw_args.dataset = "comta")]
    /\ sw_pc' = "grid"
    /\ UNCHANGED <<sw_plan, model_names, sw_results, sw_runs, sw_report>>
    /\ UNCHANGED notSweep

\* What train(args) returns (lines 110-116): the vector of the default fold, or
\* crossval's stack of one vector per fold; each evaluation is on the
\* validation split when args.testonval (lines 272, 516).
TrainResult(a, scores) ==
    IF a.crossval THEN [f \in 1 .. Len(scores) |-> ScoredVector(scores[f])]
    ELSE ScoredVector(scores[1])

EvalSplit(a) == IF a.testonval THEN "val" ELSE "test"

\* One pass of the inner loop body (lines 60-65 / 69-73).
SweepTrain ==
    /\ sw_pc = "grid"
    /\ Len(sw_results) < Len(Grid(sw_args.model_type))
    /\ LET n == Len(sw_results) + 1
           combo == Grid(sw_args.model_type)[n]
           named == [sw_args EXCEPT !.model_name = ModelName(sw_args, combo)]
           a == IF sw_args.model_type = "lmkt"
                THEN [named EXCEPT !.lr = combo[1], !.r = combo[2], !.lora_alpha = combo[2]]
                ELSE [named EXCEPT !.lr = combo[1], !.emb_size = combo[2]]
           scores == PlannedScores(sw_plan, n, Len(FoldsOf(a.crossval, a.split_by_subject)))
       IN /\ ~a.hyperparam_sweep
          /\ sw_args' = a
          /\ model_names' = Append(model_names, a.model_name)
          /\ sw_results' = Append(sw_results, TrainResult(a, scores))
          /\ sw_runs' = Append(sw_runs, [model_name |-> a.model_name, lr |-> a.lr,
                                         r |-> a.r, emb_size |-> a.emb_size,
                                         split |-> EvalSplit(a), scores |-> scores])
    /\ UNCHANGED <<sw_plan, sw_report, sw_pc>>
    /\ UNCHANGED notSweep

\* The accuracy (index 1 of the vector) read in the place of the AUC.
AucOf_Acc(a, metrics) ==
    IF a.crossval THEN MeanAxis0(metrics, 2) ELSE <<metrics[2], 1>>

\* `metrics.mean(0)[2] if args.crossval else metrics[2]`, as a fraction; the
\* vector's index 2 is position 3 here.
AucOf(a, metrics) ==
    IF a.crossval THEN MeanAxis0(metrics, 3) ELSE <<metrics[3], 1>>

FracLess(x, y) == x[1] * y[2] < y[1] * x[2]

\* aucs.argmax(): the first index of a maximal entry.
ArgMax(aucs) ==
    CHOOSE i \in 1 .. Len(aucs) :
        /\ \A j \in 1 .. Len(aucs) : ~FracLess(aucs[i], aucs[j])
        /\ \A j \in 1 .. (i - 1) : FracLess(aucs[j], aucs[i])

\* After the loops (lines 74-80).
SweepReport ==
    /\ sw_pc = "grid"
    /\ Len(sw_results) = Len(Grid(sw_args.model_type))
    /\ LET aucs == [n \in 1 .. Len(sw_results) |-> AucOf(sw_args, sw_results[n])]
           best_model_idx == ArgMax(aucs)
       IN sw_report' = [lines |-> [n \in 1 .. Len(model_names) |->
                                      [model_name |-> model_names[n], auc |-> Format2f(aucs[n])]],
                        best |-> [model_name |-> model_names[best_model_idx],
                                  auc |-> Format2f(aucs[best_model_idx])]]
    /\ sw_pc' = "done"
    /\ UNCHANGED <<sw_args, sw_plan, model_names, sw_results, sw_runs>>
    /\ UNCHANGED notSweep

\* ======================================================================
\* The epoch loop of train_lmkt / train_baseline: gradient accumulation
\* ======================================================================

AccIdle ==
    /\ grad_accum_steps = 0
    /\ gc = FALSE
    /\ num_batches = 0
    /\ acc_epochs = 0
    /\ acc_epoch = 0
    /\ micro_idx = 0
    /\ grad = {}
    /\ opt_steps = <<>>
    /\ grad_seen = <<>>
    /\ acc_pc = "idle"

\* A fresh model and optimizer (lines 199 / 441, 223-226 / 459): no gradient.
AccInit ==
    /\ grad_accum_steps \in 1 .. MaxAccum
    /\ gc \in BOOLEAN
    /\ num_batches \in 1 .. MaxBatches
    /\ acc_epochs \in 1 .. MaxEpochs
    /\ acc_epoch = 0
    /\ micro_idx = 0
    /\ grad = {}
    /\ opt_steps = <<>>
    /\ grad_seen = <<>>
    /\ acc_pc = "epoch"

\* `for epoch in range(args.epochs)` (lines 227-231 / 461-465): the head of an
\* epoch, up to model.train().
EpochStart ==
    /\ acc_pc = "epoch"
    /\ acc_epoch < acc_epochs
    /\ acc_epoch' = acc_epoch + 1
    /\ micro_idx' = 0
    /\ grad_seen' = Append(grad_seen, [at |-> "epoch", epoch |-> acc_epoch + 1, grad |-> grad])
    /\ acc_pc' = "batches"
    /\ UNCHANGED <<grad_accum_steps, gc, num_batches, acc_epochs, grad, opt_steps>>
    /\ UNCHANGED notAcc

\* A condition without the end-of-epoch disjunct.
StepDue_NoFlush(b, k, n) == (b + 1) % k = 0

\* `(batch_idx + 1) % args.grad_accum_steps == 0 or batch_idx == len(train_dataloader) - 1`
StepDue(b, k, n) == (b + 1) % k = 0 \/ b = n - 1

\* One pass of the training loop body (lines 233-241 / 467-475): backward adds
\* the micro-batch's gradient; when due, (clip and) step and zero_grad.
MicroBatch ==
    /\ acc_pc = "batches"
    /\ micro_idx < num_batches
    /\ LET b == micro_idx   \* batch_idx of enumerate
           accumulated == grad \cup {<<acc_epoch, b>>}
       IN IF StepDue(b, grad_accum_steps, num_batches)
          THEN /\ opt_steps' = Append(opt_steps, [epoch |-> acc_epoch, batch_idx |-> b,
                                                  clipped |-> gc, applied |-> accumulated])
               /\ grad' = {}
          ELSE /\ grad' = accumulated
               /\ UNCHANGED opt_steps
    /\ micro_idx' = micro_idx + 1
    /\ UNCHANGED <<grad_accum_steps, gc, num_batches, acc_epochs, acc_epoch, grad_seen, acc_pc>>
    /\ UNCHANGED notAcc

\* The training loop is exhausted: `with torch.no_grad(): model.eval()` (243-244).
ValidateStart ==
    /\ acc_pc = "batches"
    /\ micro_idx = num_batches
    /\ grad_seen' = Append(grad_seen, [at |-> "validate", epoch |-> acc_epoch, grad |-> grad])
    /\ acc_pc' = "validate"
    /\ UNCHANGED <<grad_accum_steps, gc, num_batches, acc_epochs, acc_epoch, micro_idx, grad,
                   opt_steps>>
    /\ UNCHANGED notAcc

\* The validation pass under no_grad and the rest of the epoch (245-257): no
\* backward, no step.
ValidateEnd ==
    /\ acc_pc = "validate"
    /\ acc_pc' = IF acc_epoch < acc_epochs THEN "epoch" ELSE "done"
    /\ UNCHANGED <<grad_accum_steps, gc, num_batches, acc_epochs, acc_epoch, micro_idx, grad,
                   opt_steps, grad_seen>>
    /\ UNCHANGED notAcc

\* ======================================================================
\* Flat baselines: select_flat_baseline_out_vectors, get_baseline_loss and
\* the lists test_baseline takes from a batch
\* ======================================================================

NoLoss == [loss_in |-> <<>>, corr_probs |-> <<>>]

NoEval == [all_preds |-> <<>>, final_turn_preds |-> <<>>]

ShiftIdle ==
    /\ sh_model_type = "none"
    /\ sh_mode = "none"
    /\ sh_batch = <<>>
    /\ turn_end_idxs = <<>>
    /\ y_sel = <<>>
    /\ sh_loss = NoLoss
    /\ sh_eval = NoEval
    /\ sh_pc = "idle"

\* The architectures whose KCs are flattened (BASELINE_MODELS less NON_FLAT_KC_ARCH).
FlatModels == {"dkt", "akt", "dkvmn", "saint", "simplekt"}

\* The third argument of select_flat_baseline_out_vectors in compute_baseline_loss.
ShiftTurnEndIdxs(mt) == mt # "dkt"

\* A turn of a dialogue: the number of its KCs and its label (a real label, or
\* the ignore value for a turn without one).
ShiftKcCounts == {1, 2}

ShiftTurns == [num_kcs : ShiftKcCounts, label : {1, IGNORE}]

ShiftDialogues == UNION {[1 .. n -> ShiftTurns] : n \in 1 .. MaxShiftTurns}

\* A batch of one or two dialogues.
ShiftBatches == UNION {[1 .. rows -> ShiftDialogues] : rows \in {1, 2}}

\* The padded length of the batch.
BatchTurns(batch) == SeqMax([b \in 1 .. Len(batch) |-> Len(batch[b])])

\* batch["turn_end_idxs"]: the flat index of the last KC of each turn, 0 where
\* the row is padded.
CollateTurnEndIdxs(batch) ==
    [b \in 1 .. Len(batch) |->
        [t \in 1 .. BatchTurns(batch) |->
            IF t <= Len(batch[b])
            THEN SeqSum([u \in 1 .. t |-> batch[b][u].num_kcs]) - 1
            ELSE 0]]

\* batch["labels"]: padded with the ignore value.
CollateLabels(batch) ==
    [b \in 1 .. Len(batch) |->
        [t \in 1 .. BatchTurns(batch) |->
            IF t <= Len(batch[b]) THEN batch[b][t].label ELSE IGNORE]]

\* batch["num_kcs"]: 0 where the row is padded.
CollateNumKcs(batch) ==
    [b \in 1 .. Len(batch) |->
        [t \in 1 .. BatchTurns(batch) |->
            IF t <= Len(batch[b]) THEN batch[b][t].num_kcs ELSE 0]]

ShiftInit ==
    /\ sh_model_type \in FlatModels
    /\ sh_mode \in {"train", "test"}
    /\ sh_batch \in ShiftBatches
    /\ turn_end_idxs = CollateTurnEndIdxs(sh_batch)
    /\ y_sel = <<>>
    /\ sh_loss = NoLoss
    /\ sh_eval = NoEval
    /\ sh_pc = "select"

\* tensor.max()
MatMax(m) == SeqMax([b \in 1 .. Len(m) |-> SeqMax(m[b])])

\* A clip one below the largest index.
ClipMax_Below(idxs) == MatMax(idxs) - 1

\* `max=batch["turn_end_idxs"].max()`
ClipMax(idxs) == MatMax(idxs)

\* torch.clip(x, max=hi)
Clip(x, hi) == IF x > hi THEN hi ELSE x

\* torch.clip(batch["turn_end_idxs"] + 1, max=batch["turn_end_idxs"].max())
ShiftedIdxs(idxs) ==
    [b \in 1 .. Len(idxs) |-> [t \in 1 .. Len(idxs[b]) |-> Clip(idxs[b][t] + 1, ClipMax(idxs))]]

\* torch.gather(y, 1, turn_end_idxs): the output vector of row b at a flat
\* index is opaque; the vector selected for position (b, t) is written
\* [row, turn, idx].
Gather(idxs) ==
    [b \in 1 .. Len(idxs) |->
        [t \in 1 .. Len(idxs[b]) |-> [row |-> b, turn |-> t, idx |-> idxs[b][t]]]]

\* select_flat_baseline_out_vectors (lines 332-339), called by
\* compute_baseline_loss for a flat architecture (lines 394-422).
SelectFlat ==
    /\ sh_pc = "select"
    /\ LET idxs == IF ShiftTurnEndIdxs(sh_model_type)
                   THEN ShiftedIdxs(turn_end_idxs) ELSE turn_end_idxs
       IN /\ turn_end_idxs' = idxs
          /\ y_sel' = Gather(idxs)
    /\ sh_pc' = "loss"
    /\ UNCHANGED <<sh_model_type, sh_mode, sh_batch, sh_loss, sh_eval>>
    /\ UNCHANGED notShift

\* corr_probs of get_baseline_loss (lines 343-348) on selected vectors: y
\* without its last position, the next turn's KC slots gathered from it, the
\* padding slots set to 1 (written <<>>); a correctness probability is the
\* sequence of its factors.
FlatCorrProbs(ysel, num_kcs, width) ==
    [b \in 1 .. Len(ysel) |->
        [t \in 1 .. Len(ysel[b]) - 1 |->
            [k \in 1 .. width |->
                IF KcPadMask(k, num_kcs[b][t + 1]) THEN <<>> ELSE <<ysel[b][t], k>>]]]

\* get_baseline_loss (lines 341-356).
ShiftLoss ==
    /\ sh_pc = "loss"
    /\ LET num_kcs == CollateNumKcs(sh_batch)
           corr == FlatCorrProbs(y_sel, num_kcs, MatMax(num_kcs))
       IN sh_loss' = [loss_in |-> BceInputs(corr, DropFirst(CollateLabels(sh_batch))),
                      corr_probs |-> corr]
    /\ sh_pc' = IF sh_mode = "test" THEN "collect" ELSE "done"
    /\ UNCHANGED <<sh_model_type, sh_mode, sh_batch, turn_end_idxs, y_sel, sh_eval>>
    /\ UNCHANGED notShift

\* test_baseline on the batch (lines 543-549): the masked predictions and the
\* final-turn predictions; a batch of one-turn dialogues has no column to
\* index (IndexError).
ShiftCollect ==
    /\ sh_pc = "collect"
    /\ LET labels == DropFirst(CollateLabels(sh_batch)) IN
       IF Len(labels[1]) = 0
       THEN /\ sh_pc' = "error"
            /\ UNCHANGED sh_eval
       ELSE /\ sh_eval' = [all_preds |-> Masked(Flatten(sh_loss.corr_probs), Flatten(labels)),
                           final_turn_preds |-> FinalOfRows(sh_loss.corr_probs, labels)]
            /\ sh_pc' = "done"
    /\ UNCHANGED <<sh_model_type, sh_mode, sh_batch, turn_end_idxs, y_sel, sh_loss>>
    /\ UNCHANGED notShift

\* ======================================================================
\* Specifications
\* ======================================================================

Init == TrainInit /\ LmktIdle /\ EvalIdle /\ BaseIdle /\ AggIdle /\ CvIdle /\ SweepIdle /\ AccIdle /\ ShiftIdle

Next == TrainEpoch \/ TrainFinish \/ TestReturn

Spec == Init /\ [][Next]_vars

InitLmkt == TrainIdle /\ LmktInit /\ BaseIdle /\ AggIdle /\ CvIdle /\ SweepIdle /\ AccIdle /\ ShiftIdle

NextLmkt == LmktBatch \/ LmktFinalTurns

SpecLmkt == InitLmkt /\ [][NextLmkt]_vars

InitBaseline == TrainIdle /\ LmktIdle /\ BaseInit /\ AggIdle /\ CvIdle /\ SweepIdle /\ AccIdle /\ ShiftIdle

NextBaseline ==
    \/ Dispatch
    \/ TrainBaselineSetup
    \/ TrainBaselineLoop
    \/ BaselineLoad
    \/ BaselineBatch
    \/ BaselineMetrics

SpecBaseline == InitBaseline /\ [][NextBaseline]_vars

InitAgg == TrainIdle /\ LmktIdle /\ EvalIdle /\ BaseIdle /\ AggInit /\ CvIdle /\ SweepIdle /\ AccIdle /\ ShiftIdle

NextAgg == RunUnpacked \/ RunPacked \/ RunBaseline

SpecAgg == InitAgg /\ [][NextAgg]_vars

InitCV == TrainIdle /\ LmktIdle /\ EvalIdle /\ BaseIdle /\ AggIdle /\ CvInit /\ SweepIdle /\ AccIdle /\ ShiftIdle

NextCV == CallFold \/ CrossvalSummary

SpecCV == InitCV /\ [][NextCV]_vars

InitSweep == TrainIdle /\ LmktIdle /\ EvalIdle /\ BaseIdle /\ AggIdle /\ CvIdle /\ SweepInit /\ AccIdle /\ ShiftIdle

NextSweep == SweepStart \/ SweepTrain \/ SweepReport

SpecSweep == InitSweep /\ [][NextSweep]_vars

InitAccum ==
    /\ TrainIdle /\ LmktIdle /\ EvalIdle /\ BaseIdle /\ AggIdle /\ CvIdle /\ SweepIdle
    /\ AccInit /\ ShiftIdle

NextAccum == EpochStart \/ MicroBatch \/ ValidateStart \/ ValidateEnd

SpecAccum == InitAccum /\ [][NextAccum]_vars

InitShift ==
    /\ TrainIdle /\ LmktIdle /\ EvalIdle /\ BaseIdle /\ AggIdle /\ CvIdle /\ SweepIdle
    /\ AccIdle /\ ShiftInit

NextShift == SelectFlat \/ ShiftLoss \/ ShiftCollect

SpecShift == InitShift /\ [][NextShift]_vars

\* ======================================================================
\* Claims
\* ======================================================================

\* ---------------------------------------------------------------- C1
\* Smallest value of a non-empty sequence, and the first index attaining it.
RECURSIVE SeqMin(_)
SeqMin(s) == IF Len(s) = 1 THEN s[1] ELSE Min(Head(s), SeqMin(Tail(s)))

EarliestArgmin(s) == CHOOSE i \in 1 .. Len(s) :
    /\ s[i] = SeqMin(s)
    /\ \A j \in 1 .. (i - 1) : s[j] # SeqMin(s)

\* C1: when training ends after N >= 1 epochs, the persisted checkpoint is the
\* one written at the earliest epoch attaining min(v1..vN), for every sequence
\* of validation losses, losses equal to 0 included.
C1_CheckpointIsEarliestArgmin ==
    (train_pc = "test" /\ epochs >= 1) => checkpoint = EarliestArgmin(val_losses)


\* ---------------------------------------------------------------- C2
\* 0-based positions of dialogue d's turns in the flattened stream, ascending.
RECURSIVE PositionsOf(_, _, _)
PositionsOf(ds, d, from) ==
    IF from > Len(ds) THEN <<>>
    ELSE (IF ds[from].dialogue_idx = d THEN <<from - 1>> ELSE <<>>)
         \o PositionsOf(ds, d, from + 1)

\* Dialogue ids in first-seen order.
RECURSIVE FirstSeen(_, _, _)
FirstSeen(ds, from, seen) ==
    IF from > Len(ds) THEN <<>>
    ELSE IF ds[from].dialogue_idx \in seen THEN FirstSeen(ds, from + 1, seen)
    ELSE <<ds[from].dialogue_idx>>
         \o FirstSeen(ds, from + 1, seen \cup {ds[from].dialogue_idx})

\* C2: for every batch size and test set, dialogue_idx_to_sample_idxs maps each
\* dialogue, in first-seen order, to exactly the global positions of its own
\* turns, and the final-turn lists hold one entry per dialogue: the label and
\* the prediction of that dialogue's last evaluated turn.
C2_FinalTurnPerDialogue ==
    test_pc = "metrics" =>
        LET order == FirstSeen(test_set, 1, {})
            d2s == dialogue_idx_to_sample_idxs
        IN  /\ Len(d2s) = Len(order)
            /\ Len(final_turn_labels) = Len(order)
            /\ Len(final_turn_preds) = Len(order)
            /\ \A k \in 1 .. Len(order) :
                LET pos == PositionsOf(test_set, order[k], 1) IN
                /\ d2s[k].key = order[k]
                /\ d2s[k].val = pos
                /\ final_turn_labels[k] = test_set[pos[Len(pos)] + 1].label
                /\ final_turn_preds[k] = test_set[pos[Len(pos)] + 1].pred

\* ---------------------------------------------------------------- C3
\* labels[:, 1:] of the batch test_baseline processed last.
LastBatchLabels == DropFirst(test_loader[loader_pos])

\* p is the position of row's last non-ignored label.
IsLastReal(row, p) ==
    /\ p \in 1 .. Len(row)
    /\ row[p] # IGNORE
    /\ \A q \in (p + 1) .. Len(row) : row[q] = IGNORE

\* C3: for every row of a batch and every pattern of ignored and real labels,
\* exactly one final-turn label/prediction pair is appended for the row, and it
\* is the label and the prediction at the row's last non-ignored label.
C3_BaselineFinalTurn ==
    (test_pc \in {"batches", "report"} /\ loader_pos >= 1) =>
        LET labels == LastBatchLabels
            off == Len(final_turn_labels) - Len(labels)
        IN  /\ Len(final_turn_labels) = Len(Flatten([b \in 1 .. loader_pos |->
                                              [r \in 1 .. Len(test_loader[b]) |-> r]]))
            /\ Len(final_turn_preds) = Len(final_turn_labels)
            /\ \A r \in 1 .. Len(labels) :
                \E p \in 1 .. Len(labels[r]) :
                    /\ IsLastReal(labels[r], p)
                    /\ final_turn_labels[off + r] = labels[r][p]
                    /\ final_turn_preds[off + r] = corr_probs[r][p]

\* ---------------------------------------------------------------- C4
\* A prediction of a trained model sits at a position whose label is real.
AtRealLabel(pred) ==
    DropFirst(test_loader[pred.batch])[pred.row][pred.pos] # IGNORE

NoIgnoredPreds(preds) ==
    model = "model" => \A i \in 1 .. Len(preds) : AtRealLabel(preds[i])

\* C4: the ignore value is never treated as a real class in the baseline path:
\* no -100 label, and no prediction at a -100 position, enters the BCE loss,
\* the all-turn lists or the final-turn lists.
C4_IgnoreNeverUsed ==
    /\ \A i \in 1 .. Len(loss_in) : loss_in[i][2] # IGNORE
    /\ NoIgnoredPreds([i \in 1 .. Len(loss_in) |-> loss_in[i][1]])
    /\ \A i \in 1 .. Len(all_labels) : all_labels[i] # IGNORE
    /\ NoIgnoredPreds(all_preds)
    /\ \A i \in 1 .. Len(final_turn_labels) : final_turn_labels[i] # IGNORE
    /\ NoIgnoredPreds(final_turn_preds)

\* ---------------------------------------------------------------- C5
\* compute_metrics, lines 127 and 130, for hard predictions in {0, 1}:
\* true positives, predicted positives, actual positives.
TruePos(labels, preds) ==
    Cardinality({i \in 1 .. Len(labels) : labels[i] = 1 /\ preds[i] = 1})
PredPos(preds) == Cardinality({i \in 1 .. Len(preds) : preds[i] = 1})
ActualPos(labels) == Cardinality({i \in 1 .. Len(labels) : labels[i] = 1})

\* C5: the "majority" policy predicts the majority class of the training set
\* at every test position; when that class is 1, recall is 100 and precision
\* is the fraction of positive labels among the evaluated positions.
C5_MajorityIsTrainMajority ==
    (model_type = "majority" /\ test_pc = "report") =>
        /\ \A i \in 1 .. Len(all_preds) : all_preds[i] = train_majority
        /\ train_majority = 1 =>
            /\ TruePos(all_labels, all_preds) = ActualPos(all_labels)
            /\ TruePos(all_labels, all_preds) * Len(all_labels)
                  = ActualPos(all_labels) * PredPos(all_preds)

\* ---------------------------------------------------------------- C6
SupportedTypes(e) ==
    {"lmkt"} \cup BASELINE_MODELS \cup (IF e = "test" THEN {"random", "majority"} ELSE {})

\* C6: for a model_type outside the supported set, train and test stop with
\* the "Model ... not supported" error before any batch is processed: never
\* with another error, never with a report.
C6_UnsupportedFailsFast ==
    (model_type \notin SupportedTypes(entry) /\ test_pc \in {"error", "report"}) =>
        /\ error = "ModelNotSupported"
        /\ ~trained
        /\ loader_pos = 0

\* ---------------------------------------------------------------- C7
HasZero(ps) == \E k \in 1 .. Len(ps) : ps[k] = 0

\* The probabilities of the real KCs of the turn that turn t of a baseline
\* dialogue predicts (turn t + 1), read from the output at turn t.
BaselineRealProbs(turns, t) ==
    [k \in 1 .. turns[t + 1].num_kcs |-> turns[t].y[turns[t + 1].kc_ids[k]]]

\* C7: in each aggregator the correctness probability of every turn is the
\* product of the probabilities of exactly that turn's num_kcs real KCs:
\* padding slots count as 1 whatever they hold, and a real KC probability of
\* 0 makes it exactly 0.
C7_ProductOverRealKcs ==
    /\ "unpacked" \in agg_done =>
          \A t \in 1 .. Len(agg_batch) :
              /\ out_unpacked.corr_probs[t] = Prod(agg_batch[t].kc_probs)
              /\ HasZero(agg_batch[t].kc_probs) => out_unpacked.corr_probs[t] = 0
    /\ "packed" \in agg_done =>
          \A t \in 1 .. Len(agg_batch) :
              /\ out_packed.corr_probs[t] = Prod(agg_batch[t].kc_probs)
              /\ HasZero(agg_batch[t].kc_probs) => out_packed.corr_probs[t] = 0
    /\ "baseline" \in agg_done =>
          \A t \in 1 .. Len(agg_batch.turns) - 1 :
              LET real == BaselineRealProbs(agg_batch.turns, t) IN
              /\ out_baseline.corr_probs[1][t] = Prod(real)
              /\ HasZero(real) => out_baseline.corr_probs[1][t] = 0

\* A packed turn with a padding slot holding probability 0 and real KC
\* probabilities all 1: its correctness probability is 1.
C7_Witness ==
    /\ "packed" \in agg_done
    /\ \E t \in 1 .. Len(agg_batch) :
        /\ agg_batch[t].num_kcs < PackedWidth(agg_batch)
        /\ agg_batch[t].pad_prob = 0
        /\ out_packed.corr_probs[t] = One

\* ---------------------------------------------------------------- C8
\* C8: on the same per-(turn, KC) probabilities and labels, the packed and the
\* unpacked aggregator return the same grouped KC probabilities, the same
\* correctness probabilities and the same loss.
C8_PackedEqualsUnpacked ==
    {"unpacked", "packed"} \subseteq agg_done =>
        /\ out_packed.kc_probs_grouped = out_unpacked.kc_probs_grouped
        /\ out_packed.corr_probs = out_unpacked.corr_probs
        /\ out_packed.loss = out_unpacked.loss

\* Both have run on a two-turn batch whose turns differ in KC count (so the
\* packed layout is padded and the second unpacked group starts at an offset).
C8_Witness ==
    /\ {"unpacked", "packed"} \subseteq agg_done
    /\ Len(agg_batch) = 2
    /\ agg_batch[1].num_kcs > agg_batch[2].num_kcs
    /\ agg_batch[2].pad_prob = 0
    /\ out_packed.corr_probs[2] = One

\* ----------------------------------------------------------------------
\* C9: an evaluation whose label vector (all turns, or final turns) holds one
\* class only ends the run with the exception of the AUC computation: the call
\* returns no vector, its report is not written, crossval collects nothing
\* from it and writes no summary, and train / test return nothing.
SingleClass(labels) == Cardinality(ClassesOf(labels)) = 1

LastCall == calls[Len(calls)]

SuccessfulCalls == {f \in 1 .. Len(calls) : calls[f].vector # <<>>}

C9_DegenerateAucPropagates ==
    (calls # <<>> /\ (SingleClass(eval_in.labels) \/ SingleClass(eval_in.final_labels)))
        => /\ cv_pc = "raised"
           /\ LastCall.vector = <<>>
           /\ LastCall.fold \notin reports
           /\ SuccessfulCalls = 1 .. (Len(calls) - 1)
           /\ Len(metrics_agg) = (IF crossval_on THEN Len(calls) - 1 ELSE 0)
           /\ summary = NoSummary
           /\ returned = <<>>

\* A later fold of a cross-validation whose final turns alone are of one class.
C9_Witness ==
    /\ crossval_on
    /\ Len(calls) >= 2
    /\ ~SingleClass(eval_in.labels)
    /\ SingleClass(eval_in.final_labels)
    /\ cv_pc = "raised"

\* ----------------------------------------------------------------------
\* C10: crossval's aggregation.
CallFolds == [f \in 1 .. Len(calls) |-> calls[f].fold]

CallVectors == [f \in 1 .. Len(calls) |-> calls[f].vector]

ColTotal(i) == SeqSum([f \in 1 .. Len(calls) |-> calls[f].vector[i]])

ColSquares(i) == SeqSum([f \in 1 .. Len(calls) |-> calls[f].vector[i] * calls[f].vector[i]])

\* k * k times the mean squared deviation of metric i over the k calls.
ColDeviation(i) == Len(calls) * ColSquares(i) - ColTotal(i) * ColTotal(i)

\* fn is called once per fold, in fold order.
OncePerFoldInOrder ==
    /\ Len(calls) <= Len(FoldsOf(crossval_on, split_by_subject))
    /\ \A f \in 1 .. Len(calls) : calls[f].fold = FoldsOf(crossval_on, split_by_subject)[f]
    /\ (cv_pc = "done" => CallFolds = FoldsOf(crossval_on, split_by_subject))

\* The vectors the calls returned are persisted and returned, in fold order.
RawPersistedAndReturned ==
    /\ summary.raw = CallVectors
    /\ returned = CallVectors

\* The reported numbers (hundredths h) are the exact mean and deviation.
ReportedExactly(i) ==
    /\ 10 * summary.results[i].avg * Len(calls) = ColTotal(i)
    /\ (10 * summary.results[i].std) * (10 * summary.results[i].std) * Len(calls) * Len(calls)
          = ColDeviation(i)

\* h hundredths is a nearest two-decimal number to num / den thousandths.
Nearest(h, num, den) ==
    /\ 10 * h * den - num <= 5 * den
    /\ num - 10 * h * den <= 5 * den

\* h hundredths is a nearest two-decimal number to sqrt(num / den) thousandths.
NearestRoot(h, num, den) ==
    /\ num <= (10 * h + 5) * (10 * h + 5) * den
    /\ (h = 0 \/ (10 * h - 5) * (10 * h - 5) * den <= num)

ReportedRounded(i) ==
    /\ Nearest(summary.results[i].avg, ColTotal(i), Len(calls))
    /\ NearestRoot(summary.results[i].std, ColDeviation(i), Len(calls) * Len(calls))

\* C10 as stated: fn is called once per fold in fold order, the reported mean
\* and standard deviation of each of the 11 metrics equal the elementwise mean
\* and standard deviation of the per-fold vectors, and those vectors are
\* persisted and returned stacked in fold order.
C10_ReportedEqualsMeanStd ==
    /\ OncePerFoldInOrder
    /\ (cv_pc = "done" /\ crossval_on) =>
          /\ RawPersistedAndReturned
          /\ Len(summary.results) = NumMetrics
          /\ \A i \in 1 .. NumMetrics : ReportedExactly(i)

\* C10 amended: the same, with the reported mean and (population) standard
\* deviation equal to the elementwise ones rounded to two decimals.
C10_ReportedRoundsMeanStd ==
    /\ OncePerFoldInOrder
    /\ (cv_pc = "done" /\ crossval_on) =>
          /\ RawPersistedAndReturned
          /\ Len(summary.results) = NumMetrics
          /\ \A i \in 1 .. NumMetrics : ReportedRounded(i)

\* A finished five-fold cross-validation whose folds returned different
\* vectors, with a mean that is not a two-decimal number.
C10_Witness ==
    /\ cv_pc = "done"
    /\ crossval_on
    /\ ~split_by_subject
    /\ Len(calls) = NumFolds
    /\ \E f, g \in 1 .. Len(calls) : calls[f].vector # calls[g].vector
    /\ \E i \in 1 .. NumMetrics : ~ReportedExactly(i)

\* ----------------------------------------------------------------------
\* C11: the sweep trains every combination of the grid (4 x 5 for lmkt, 6 x 6
\* otherwise) exactly once, each under its own model name, evaluates every run
\* on the validation split, and reports as best a combination whose all-turn
\* validation AUC (averaged over the folds) is at least that of every other.
SeqToSet(xs) == {xs[i] : i \in 1 .. Len(xs)}

RunCombo(run) == <<run.lr, IF sw_args.model_type = "lmkt" THEN run.r ELSE run.emb_size>>

CartesianGrid ==
    IF sw_args.model_type = "lmkt"
    THEN SeqToSet(LmktLrs) \X SeqToSet(LmktRanks)
    ELSE SeqToSet(BaselineLrs) \X SeqToSet(BaselineEmbSizes)

GridSize == IF sw_args.model_type = "lmkt" THEN 4 * 5 ELSE 6 * 6

\* The all-turn validation AUC of a run, summed over its folds (every run of a
\* sweep has the same number of folds).
RunScore(run) == SeqSum(run.scores)

RunsNamed(name) == {n \in 1 .. Len(sw_runs) : sw_runs[n].model_name = name}

C11_SweepCoversGridAndPicksBest ==
    /\ \A n \in 1 .. Len(sw_runs) :
          /\ sw_runs[n].split = "val"
          /\ RunCombo(sw_runs[n]) \in CartesianGrid
          /\ \A m \in 1 .. Len(sw_runs) :
                m # n => /\ RunCombo(sw_runs[m]) # RunCombo(sw_runs[n])
                         /\ sw_runs[m].model_name # sw_runs[n].model_name
    /\ sw_pc = "done" =>
          /\ Len(sw_runs) = GridSize
          /\ Cardinality(CartesianGrid) = GridSize
          /\ {RunCombo(sw_runs[n]) : n \in 1 .. Len(sw_runs)} = CartesianGrid
          /\ Len(sw_report.lines) = GridSize
          /\ \E b \in RunsNamed(sw_report.best.model_name) :
                \A n \in 1 .. Len(sw_runs) : RunScore(sw_runs[b]) >= RunScore(sw_runs[n])

\* A finished cross-validated sweep whose best run is strictly better than
\* the others and is neither the first nor the last of the grid.
C11_Witness ==
    /\ sw_pc = "done"
    /\ sw_args.crossval
    /\ sw_plan.q > sw_plan.base
    /\ sw_plan.run \notin {1, GridSize}
    /\ sw_report.best.model_name = model_names[sw_plan.run]
    /\ sw_report.best.model_name # model_names[1]

\* ----------------------------------------------------------------------
\* C12: with n >= 1 batches and grad_accum_steps = k >= 1, the optimizer steps
\* (each followed by zero_grad) fall exactly after the micro-batches whose
\* 1-based index is a multiple of k and after the last one of the epoch; every
\* micro-batch's gradient is applied in exactly one step, no step applies more
\* than k micro-batches, and the gradient is empty at every epoch start and
\* before every validation pass.
Processed ==
    {mb \in (1 .. acc_epoch) \X (0 .. num_batches - 1) :
        mb[1] < acc_epoch \/ mb[2] < micro_idx}

StepExpectedAfter(mb) == (mb[2] + 1) % grad_accum_steps = 0 \/ mb[2] + 1 = num_batches

StepsApplying(mb) == {j \in 1 .. Len(opt_steps) : mb \in opt_steps[j].applied}

C12_AccumulationStepping ==
    /\ {<<opt_steps[j].epoch, opt_steps[j].batch_idx>> : j \in 1 .. Len(opt_steps)}
          = {mb \in Processed : StepExpectedAfter(mb)}
    /\ \A i, j \in 1 .. Len(opt_steps) :
          i < j => <<opt_steps[i].epoch, opt_steps[i].batch_idx>>
                      # <<opt_steps[j].epoch, opt_steps[j].batch_idx>>
    /\ \A mb \in Processed :
          /\ Cardinality(StepsApplying(mb)) + (IF mb \in grad THEN 1 ELSE 0) = 1
          /\ (acc_pc \in {"validate", "epoch", "done"}) => Cardinality(StepsApplying(mb)) = 1
    /\ \A j \in 1 .. Len(opt_steps) :
          /\ Cardinality(opt_steps[j].applied) <= grad_accum_steps
          /\ opt_steps[j].applied \subseteq Processed
    /\ \A g \in 1 .. Len(grad_seen) : grad_seen[g].grad = {}
    /\ (acc_pc \in {"validate", "epoch", "done"}) => grad = {}

\* A second epoch reaches validation after a step on a full group and a step on
\* a shorter last group.
C12_Witness ==
    /\ acc_pc = "validate"
    /\ acc_epoch = 2
    /\ grad_accum_steps > 1
    /\ num_batches > grad_accum_steps
    /\ num_batches % grad_accum_steps # 0
    /\ \E j \in 1 .. Len(opt_steps) :
          Cardinality(opt_steps[j].applied) < grad_accum_steps

\* ----------------------------------------------------------------------
\* C13: a run with epochs >= 1 calls the evaluation exactly once, only after
\* the last epoch, with its own (model_name, fold); at the call a checkpoint
\* written during this run is at the name the evaluation loads (the first epoch
\* always writes one), and the evaluation leaves it as it found it.
ThisRunsFile(f) == f.run = "this" /\ f.epoch \in 1 .. epochs

C13_TrainThenTest ==
    (train_pc # "idle" /\ epochs >= 1) =>
        /\ Len(test_calls) = (IF train_pc = "loop" THEN 0 ELSE 1)
        /\ train_pc # "error"
        /\ epoch >= 1 => ThisRunsFile(disk[SaveName(family, MODEL_NAME, train_fold)])
        /\ \A c \in 1 .. Len(test_calls) :
              /\ test_calls[c].after_epoch = epochs
              /\ test_calls[c].model_name = MODEL_NAME
              /\ test_calls[c].fold = train_fold
              /\ test_calls[c].name = SaveName(family, MODEL_NAME, train_fold)
              /\ ThisRunsFile(test_calls[c].loaded)
              /\ test_calls[c].loaded.epoch = checkpoint
              /\ disk[test_calls[c].name] = test_calls[c].loaded

\* A baseline run of several epochs on a numbered fold, over a stale file of an
\* earlier run, has returned from its evaluation.
C13_Witness ==
    /\ train_pc = "done"
    /\ family = "baseline"
    /\ epochs >= 2
    /\ train_fold # 0
    /\ \E p \in DOMAIN disk : disk[p] = StaleFile
    /\ Len(test_calls) = 1
    /\ test_calls[1].loaded.run = "this"

\* ----------------------------------------------------------------------
\* C14: with shift_turn_end_idxs, every shifted index lies within the range of
\* the batch's unshifted turn_end_idxs, and wherever the clip changed the index
\* (turn_end_idx + 1 exceeds the batch maximum) the vector gathered there is
\* used neither by get_baseline_loss nor by the lists of test_baseline: the
\* position is the discarded last one, or the turn it predicts has the ignore
\* label or no real KC slot; the results are those of an unclipped gather.
OrigIdxs == CollateTurnEndIdxs(sh_batch)

MatMin(m) == SeqMin([b \in 1 .. Len(m) |-> SeqMin(m[b])])

Positions == {<<b, t>> : b \in 1 .. Len(sh_batch), t \in 1 .. BatchTurns(sh_batch)}

ExceedsMax(pos) == OrigIdxs[pos[1]][pos[2]] + 1 > MatMax(OrigIdxs)

ClipChanged(pos) == turn_end_idxs[pos[1]][pos[2]] # OrigIdxs[pos[1]][pos[2]] + 1

\* The position is the last of the sequence, or the turn it predicts is
\* unlabelled or has only padding KC slots.
PredictsNothing(pos) ==
    \/ pos[2] = BatchTurns(sh_batch)
    \/ CollateLabels(sh_batch)[pos[1]][pos[2] + 1] = IGNORE
    \/ CollateNumKcs(sh_batch)[pos[1]][pos[2] + 1] = 0

\* A correctness probability has a factor read from vector v.
HasFactorOf(prob, v) == \E k \in 1 .. Len(prob) : prob[k] # <<>> /\ prob[k][1] = v

UsedByLoss(v) == \E i \in 1 .. Len(sh_loss.loss_in) : HasFactorOf(sh_loss.loss_in[i][1], v)

UsedByMetrics(v) ==
    \/ \E i \in 1 .. Len(sh_eval.all_preds) : HasFactorOf(sh_eval.all_preds[i], v)
    \/ \E i \in 1 .. Len(sh_eval.final_turn_preds) : HasFactorOf(sh_eval.final_turn_preds[i], v)

\* The vectors an unclipped gather selects, and the correctness probabilities
\* computed from them.
UnclippedSel ==
    [b \in 1 .. Len(OrigIdxs) |->
        [t \in 1 .. Len(OrigIdxs[b]) |->
            [row |-> b, turn |-> t, idx |-> OrigIdxs[b][t] + 1]]]

UnclippedCorr ==
    FlatCorrProbs(UnclippedSel, CollateNumKcs(sh_batch), MatMax(CollateNumKcs(sh_batch)))

C14_ClippingHasNoEffect ==
    (sh_pc \in {"loss", "collect", "done", "error"} /\ ShiftTurnEndIdxs(sh_model_type)) =>
        /\ \A pos \in Positions :
              /\ turn_end_idxs[pos[1]][pos[2]] >= MatMin(OrigIdxs)
              /\ turn_end_idxs[pos[1]][pos[2]] <= MatMax(OrigIdxs)
              /\ ClipChanged(pos) <=> ExceedsMax(pos)
              /\ ClipChanged(pos) =>
                    /\ PredictsNothing(pos)
                    /\ ~UsedByLoss(y_sel[pos[1]][pos[2]])
                    /\ ~UsedByMetrics(y_sel[pos[1]][pos[2]])
        /\ sh_pc \in {"collect", "done", "error"} =>
              /\ sh_loss.corr_probs = UnclippedCorr
              /\ sh_loss.loss_in = BceInputs(UnclippedCorr, DropFirst(CollateLabels(sh_batch)))
        /\ (sh_pc = "done" /\ sh_mode = "test") =>
              /\ sh_eval.all_preds = Masked(Flatten(UnclippedCorr),
                                            Flatten(DropFirst(CollateLabels(sh_batch))))
              /\ sh_eval.final_turn_preds
                    = FinalOfRows(UnclippedCorr, DropFirst(CollateLabels(sh_batch)))

\* A tested batch where the clip changed the index of a position that is not
\* the last of the sequence (a short dialogue with many KCs next to a longer
\* one), while other vectors are used by the loss.
C14_Witness ==
    /\ sh_pc = "done"
    /\ sh_mode = "test"
    /\ ShiftTurnEndIdxs(sh_model_type)
    /\ \E pos \in Positions : ClipChanged(pos) /\ pos[2] < BatchTurns(sh_batch)
    /\ \E pos \in Positions : UsedByLoss(y_sel[pos[1]][pos[2]])

====
